---- MODULE Spec2Model ----
(***************************************************************************)
(* A model of ujlaser/lasercontrol.py: the Laser class (serial transport,  *)
(* parameter cache, firing and the kicker/watchdog) and the status         *)
(* bit-field LaserStatusResponse.                                          *)
(*                                                                         *)
(* Two threads act on one Laser object: the caller, which runs one public  *)
(* method at a time, and the kicker, whose tick runs _kicker_callback.     *)
(* Every _send_command is three steps (connection check, lock+write,       *)
(* read+unlock) so that the two threads interleave as the code lets them.  *)
(*                                                                         *)
(* Bytes are sequences of one-character strings.  The package declares     *)
(* Python 3 (setup.py), where indexing bytes yields an int.                *)
(***************************************************************************)
EXTENDS Integers, Sequences, FiniteSets, TLC

\* ------------------------------------------------------------------ bounds

\* A tick starts only while the elapsed counter is at most this cap.
MaxFireTimer == 4
\* The wire trace keeps its last MaxWire events.
MaxWire == 2
\* Status integers run from 0 to MaxStatus (every bit below 2^14).
MaxStatus == 16383

\* ------------------------------------------------------------------- bytes

Empty == <<>>
OK == <<"o", "k", "\r", "\n">>
\* "ok" without the line feed: not the success token
OkCr == <<"o", "k", "\r">>
Digits == <<"0", "1", "2", "3", "4", "5", "6", "7", "8", "9">>
Whitespace == {" ", "\t", "\n", "\r", "\f"}

IsDigit(c) == \E i \in 1..10 : Digits[i] = c
DigitVal(c) == (CHOOSE i \in 1..10 : Digits[i] = c) - 1

RECURSIVE StrNat(_)
\* str(n) for an int n >= 0
StrNat(n) == IF n < 10 THEN <<Digits[n + 1]>> ELSE StrNat(n \div 10) \o <<Digits[(n % 10) + 1]>>

\* str(n) for an int
StrInt(n) == IF n < 0 THEN <<"-">> \o StrNat(-n) ELSE StrNat(n)

RECURSIVE Strip(_)
\* str.strip() as int() applies it: leading and trailing whitespace removed
Strip(s) ==
  IF s = <<>> THEN s
  ELSE IF Head(s) \in Whitespace THEN Strip(Tail(s))
  ELSE IF s[Len(s)] \in Whitespace THEN Strip(SubSeq(s, 1, Len(s) - 1))
  ELSE s

RECURSIVE DigitsVal(_)
DigitsVal(s) == IF s = <<>> THEN 0 ELSE 10 * DigitsVal(SubSeq(s, 1, Len(s) - 1)) + DigitVal(s[Len(s)])

\* int(text): <<value>>, or <<>> where Python raises ValueError
PyInt(text) ==
  LET t == Strip(text)
      signed == t /= <<>> /\ Head(t) \in {"+", "-"}
      body == IF signed THEN Tail(t) ELSE t
  IN IF body /= <<>> /\ \A i \in 1..Len(body) : IsDigit(body[i])
     THEN <<(IF signed /\ Head(t) = "-" THEN -1 ELSE 1) * DigitsVal(body)>>
     ELSE <<>>

\* b[i] on bytes: an int in Python 3
BytesAt(b, i) == [ty |-> "int", v |-> b[i + 1]]
\* a bytes literal such as b"?"
BytesLit(s) == [ty |-> "bytes", v |-> s]
\* Python's == : values of different types are unequal
PyEq(x, y) == x.ty = y.ty /\ x.v = y.v

\* `response[0] == b"?"`, the guard the query methods use after `not response`
IsErrorMarker(response) == PyEq(BytesAt(response, 0), BytesLit(<<"?">>))

\* ----------------------------------------------------------------- numbers

\* A Python number: an int, or a float holding the exact rational n/d (the
\* model's inputs are chosen so that the float arithmetic is exact).
RECURSIVE Gcd(_, _)
Gcd(a, b) == IF b = 0 THEN a ELSE Gcd(b, a % b)
Abs(n) == IF n < 0 THEN -n ELSE n
Norm(t, n, d) ==
  LET g == Gcd(Abs(n), Abs(d))
      s == IF d < 0 THEN -1 ELSE 1
  IN [t |-> t, n |-> s * (n \div g), d |-> s * (d \div g)]
PyI(n) == [t |-> "int", n |-> n, d |-> 1]
IsNumber(x) == x.t \in {"int", "float"}
NumEq(a, b) == a.n * b.d = b.n * a.d
NumLt(a, b) == a.n * b.d < b.n * a.d
NumLe(a, b) == a.n * b.d <= b.n * a.d
\* float(x)
ToFloat(x) == [x EXCEPT !.t = "float"]
\* a / b (true division), b nonzero
TrueDiv(a, b) == Norm("float", a.n * b.d, a.d * b.n)
\* str(x) of an int, or of a float with an integral value ("2.0")
StrNum(x) == IF x.t = "int" THEN StrInt(x.n) ELSE StrInt(x.n) \o <<".", "0">>

\* None, and a str argument, where a number is expected
PyNone == [t |-> "NoneType", n |-> 0, d |-> 1]
PyStr == [t |-> "str", n |-> 0, d |-> 1]

\* float(text) for a decimal literal without exponent: <<value>>, or <<>>
\* where Python raises ValueError
PyFloat(text) ==
  LET t == Strip(text)
      signed == t /= <<>> /\ Head(t) \in {"+", "-"}
      body == IF signed THEN Tail(t) ELSE t
      dots == {i \in 1..Len(body) : body[i] = "."}
      point == IF dots = {} THEN Len(body) + 1 ELSE CHOOSE i \in dots : TRUE
      whole == SubSeq(body, 1, point - 1)
      frac == SubSeq(body, point + 1, Len(body))
      digits == whole \o frac
  IN IF Cardinality(dots) <= 1 /\ digits /= <<>> /\ \A i \in 1..Len(digits) : IsDigit(digits[i])
     THEN <<Norm("float", (IF signed /\ Head(t) = "-" THEN -1 ELSE 1) * DigitsVal(digits),
                 10 ^ Len(frac))>>
     ELSE <<>>

\* ------------------------------------------------------ LaserStatusResponse

\* bool(i & b) for a power of two b
Bit(i, b) == (i \div b) % 2 = 1

\* mutant: bits 1024 and 2048 read the other way round
LaserStatusResponseSwapped(i) ==
  [laser_enabled |-> Bit(i, 1),
   laser_active |-> Bit(i, 2),
   diode_external_trigger |-> Bit(i, 8),
   external_interlock |-> Bit(i, 64),
   resonator_over_temp |-> Bit(i, 128),
   electrical_over_temp |-> Bit(i, 256),
   power_failure |-> Bit(i, 512),
   ready_to_enable |-> Bit(i, 2048),
   ready_to_fire |-> Bit(i, 1024),
   low_power_mode |-> Bit(i, 4096),
   high_power_mode |-> Bit(i, 8192)]
\* LaserStatusResponse.__init__ after i = int(response)
LaserStatusResponse(i) ==
  [laser_enabled |-> Bit(i, 1),
   laser_active |-> Bit(i, 2),
   diode_external_trigger |-> Bit(i, 8),
   external_interlock |-> Bit(i, 64),
   resonator_over_temp |-> Bit(i, 128),
   electrical_over_temp |-> Bit(i, 256),
   power_failure |-> Bit(i, 512),
   ready_to_enable |-> Bit(i, 1024),
   ready_to_fire |-> Bit(i, 2048),
   low_power_mode |-> Bit(i, 4096),
   high_power_mode |-> Bit(i, 8192)]

\* the flags and the value __int__ adds for each
StatusBits ==
  [laser_enabled |-> 1, laser_active |-> 2, diode_external_trigger |-> 8,
   external_interlock |-> 64, resonator_over_temp |-> 128, electrical_over_temp |-> 256,
   power_failure |-> 512, ready_to_enable |-> 1024, ready_to_fire |-> 2048,
   low_power_mode |-> 4096, high_power_mode |-> 8192]
StatusFlags == DOMAIN StatusBits

RECURSIVE SumOver(_, _)
SumOver(fs, w) ==
  IF fs = {} THEN 0 ELSE LET f == CHOOSE x \in fs : TRUE IN w[f] + SumOver(fs \ {f}, w)

\* mutant: high_power_mode adds low_power_mode's 4096
IntHighAsLow(s) ==
  SumOver({f \in StatusFlags : s[f]}, [StatusBits EXCEPT !.high_power_mode = 4096])
\* LaserStatusResponse.__int__: i starts at 0 and each set flag adds its value
__int__(s) == SumOver({f \in StatusFlags : s[f]}, StatusBits)

\* -------------------------------------------------------- error descriptions

NoResponse == <<"No response received from laser in time.">>
NackTable ==
  <<"Command not recognized.",
    "Missing command keyword.",
    "Invalid command keyword.",
    "Missing Parameter",
    "Invalid Parameter",
    "Query only. Command needs a question mark.",
    "Invalid query. Command does not have a query function.",
    "Command unavailable in current system state.">>
\* the device's NACK token b'?k\r\n'
Nack(k) == <<"?", Digits[k + 1], "\r", "\n">>

\* Laser.get_error_code_description(code): a one-element tuple holding the
\* text, or the fallback text followed by the code it quotes
get_error_code_description(code) ==
  IF code = Empty THEN NoResponse
  ELSE IF \E k \in 1..8 : code = Nack(k)
       THEN <<NackTable[CHOOSE k \in 1..8 : code = Nack(k)]>>
       ELSE <<"Error description not found, response code given: ", code>>

\* ---------------------------------------------------------------- outcomes

NoOutcome == [kind |-> "none", exc |-> "", val |-> <<>>]
Running == [kind |-> "running", exc |-> "", val |-> <<>>]
Return(v) == [kind |-> "return", exc |-> "", val |-> <<v>>]
Raise(exc, val) == [kind |-> "raise", exc |-> exc, val |-> val]
CommandError(response) == Raise("LaserCommandError", get_error_code_description(response))

\* ---------------------------------------------------------------- commands

device_address == <<"L", "A">>
\* mutant: the terminator is left off
FrameNoTerminator(cmd) == <<";">> \o device_address \o <<":">> \o cmd
\* cmd_complete: prefix, address, delimiter, command, terminator
Frame(cmd) == <<";">> \o device_address \o <<":">> \o cmd \o <<"\r">>

CmdSS == <<"S", "S", "?">>
CmdFL1 == <<"F", "L", " ", "1">>
CmdFL0 == <<"F", "L", " ", "0">>

\* --------------------------------------------------------------- the device

\* Status integers the device reports: the manual's 3075 (enabled, active,
\* ready to enable, ready to fire), 2049 (enabled, ready to fire), 1 (enabled
\* only) and 2048 (ready to fire only).
StatusValues == {3075, 2049, 1, 2048}
StatusReplies == {StrNat(n) \o <<"\r">> : n \in StatusValues}
\* --------------------------------------------------------------- get_status

\* Laser.get_status on the response to SS?
get_status(response) ==
  IF response = Empty \/ IsErrorMarker(response) THEN CommandError(response)
  ELSE LET i == PyInt(SubSeq(response, 1, Len(response) - 1))
       IN IF i = <<>> THEN Raise("ValueError", <<"invalid literal for int()">>)
          ELSE Return(LaserStatusResponse(i[1]))

\* ---------------------------------------------------------------- setters

Setters ==
  {"set_pulse_mode", "set_pulse_period", "set_repetition_rate", "set_burst_count",
   "set_pulse_width", "set_diode_trigger"}

\* the cached field a setter is for
FieldOf(op) ==
  CASE op = "set_pulse_mode" -> "pulseMode"
    [] op = "set_pulse_period" -> "pulsePeriod"
    [] op = "set_repetition_rate" -> "repRate"
    [] op = "set_burst_count" -> "burstCount"
    [] op = "set_pulse_width" -> "pulseWidth"
    [] op = "set_diode_trigger" -> "diodeTrigger"

SetterKeyword(op) ==
  CASE op = "set_pulse_mode" -> <<"P", "M">>
    [] op = "set_pulse_period" -> <<"P", "E">>
    [] op = "set_repetition_rate" -> <<"R", "R">>
    [] op = "set_burst_count" -> <<"B", "C">>
    [] op = "set_pulse_width" -> <<"D", "W">>
    [] op = "set_diode_trigger" -> <<"D", "T">>

\* mutant: only the argument's type is checked
ValidArgAnyNumber(op, x) == IsNumber(x)
\* the check each setter makes before it sends (set_pulse_period makes none)
ValidArg(op, x) ==
  CASE op = "set_pulse_mode" -> (\E m \in {0, 1, 2} : NumEq(x, PyI(m))) /\ x.t = "int"
    [] op = "set_pulse_period" -> TRUE
    [] op = "set_repetition_rate" -> IsNumber(x) /\ ~NumLt(x, PyI(1)) /\ ~NumLt(PyI(5), x)
    [] op = "set_burst_count" -> ~NumLe(x, PyI(0)) /\ x.t = "int"
    [] op = "set_pulse_width" -> IsNumber(x) /\ ~NumLe(x, PyI(0))
    [] op = "set_diode_trigger" -> (NumEq(x, PyI(0)) \/ NumEq(x, PyI(1))) /\ x.t = "int"

\* what a refused argument raises: the setter's ValueError, or the TypeError
\* of set_burst_count's `count <= 0` on a str
ValidationError(op, x) ==
  IF op = "set_burst_count" /\ ~IsNumber(x)
  THEN Raise("TypeError", <<"'<=' not supported between instances of 'str' and 'int'">>)
  ELSE Raise("ValueError", <<op>>)

\* the command a setter sends: keyword, space, str(value)
SetCmd(op, x) ==
  SetterKeyword(op) \o <<" ">> \o StrNum(IF op = "set_pulse_width" THEN ToFloat(x) ELSE x)

\* mutant: `response.startswith(b"ok")`
AckedPrefix(response) == Len(response) >= 2 /\ response[1] = "o" /\ response[2] = "k"
\* `response == b"ok\r\n"` in the setters
Acked(response) == response = OK

\* a setter's statements after an acknowledged command: the cache they leave
\* and how the call ends (set_burst_count and set_repetition_rate also store
\* burstDuration = burstCount / repRate, which no other method reads)
SetterAck(op, x, p) ==
  CASE op = "set_pulse_mode" -> [params |-> [p EXCEPT !.pulseMode = x], out |-> Return("True")]
    [] op = "set_pulse_period" ->
         LET p1 == [p EXCEPT !.pulsePeriod = ToFloat(x)]
         IN IF x.n = 0
            THEN [params |-> p1, out |-> Raise("ZeroDivisionError", <<"division by zero">>)]
            ELSE [params |-> [p1 EXCEPT !.repRate = TrueDiv(PyI(1), x)], out |-> Return("True")]
    [] op = "set_repetition_rate" -> [params |-> [p EXCEPT !.repRate = x], out |-> Return("True")]
    [] op = "set_burst_count" ->
         [params |-> [p EXCEPT !.burstCount = x],
          out |-> IF p.repRate.n = 0 THEN Raise("ZeroDivisionError", <<"division by zero">>)
                  ELSE Return("True")]
    [] op = "set_pulse_width" -> [params |-> [p EXCEPT !.pulseWidth = ToFloat(x)], out |-> Return("True")]
    [] op = "set_diode_trigger" -> [params |-> [p EXCEPT !.diodeTrigger = x], out |-> Return("True")]

\* a setter from the response on
SetterResult(op, x, p, response) ==
  IF Acked(response) THEN SetterAck(op, x, p)
  ELSE [params |-> p, out |-> CommandError(response)]

\* ---------------------------------------------------------------- getters

\* refresh_parameters' getters, in the order it calls them
RefreshOrder ==
  <<"get_pulse_mode", "get_pulse_period", "get_repetition_rate", "get_burst_count",
    "get_pulse_width", "get_diode_trigger">>
Getters == {RefreshOrder[k] : k \in 1..6}

\* the field refresh_parameters assigns a getter's value to
GetterField(op) ==
  CASE op = "get_pulse_mode" -> "pulseMode"
    [] op = "get_pulse_period" -> "pulsePeriod"
    [] op = "get_repetition_rate" -> "repRate"
    [] op = "get_burst_count" -> "burstCount"
    [] op = "get_pulse_width" -> "pulseWidth"
    [] op = "get_diode_trigger" -> "diodeTrigger"

\* the query a getter sends
QueryCmd(op) ==
  CASE op = "get_pulse_mode" -> <<"P", "M", "?">>
    [] op = "get_pulse_period" -> <<"P", "E", "?">>
    [] op = "get_repetition_rate" -> <<"R", "R", "?">>
    [] op = "get_burst_count" -> <<"B", "C", "?">>
    [] op = "get_pulse_width" -> <<"D", "W", "?">>
    [] op = "get_diode_trigger" -> <<"D", "T", "?">>

\* the value the device holds for a getter's parameter, as it answers the query
DeviceValue(op) ==
  CASE op = "get_pulse_mode" -> <<"2", "\r">>
    [] op = "get_pulse_period" -> <<"0", ".", "5", "\r">>
    [] op = "get_repetition_rate" -> <<"5", "\r">>
    [] op = "get_burst_count" -> <<"3", "\r">>
    [] op = "get_pulse_width" -> <<"0", ".", "1", "\r">>
    [] op = "get_diode_trigger" -> <<"1", "\r">>

\* a getter's `not response` branch: get_repetition_rate returns None,
\* get_burst_count has no such branch and indexes the empty bytes, the others
\* raise the no-response error
GetterTimeout(op) ==
  CASE op = "get_repetition_rate" -> Return(PyNone)
    [] op = "get_burst_count" -> Raise("IndexError", <<"index out of range">>)
    [] OTHER -> CommandError(Empty)

\* `return int(response)` or `return float(response)`
GetterParse(op, response) ==
  LET v == IF op \in {"get_pulse_mode", "get_burst_count", "get_diode_trigger"}
           THEN LET i == PyInt(response) IN IF i = <<>> THEN <<>> ELSE <<PyI(i[1])>>
           ELSE PyFloat(response)
  IN IF v = <<>> THEN Raise("ValueError", <<"invalid literal">>) ELSE Return(v[1])

\* a getter from the response on
GetterResult(op, response) ==
  IF response = Empty THEN GetterTimeout(op)
  ELSE IF IsErrorMarker(response) THEN CommandError(response)
  ELSE GetterParse(op, response)

\* ------------------------------------------------------------ arm, is_armed

CmdENq == <<"E", "N", "?">>
CmdEN1 == <<"E", "N", " ", "1">>

\* is_armed() on the response to EN?
is_armed(response) ==
  IF response = Empty \/ IsErrorMarker(response) THEN CommandError(response)
  ELSE Return(PyEq(BytesAt(response, 0), BytesLit(<<"1">>)))

CmdEN0 == <<"E", "N", " ", "0">>

\* mutant: any response that is not a NACK counts as the success token
ArmResultNotNack(response) ==
  IF response = Empty \/ response[1] /= "?" THEN Return("True") ELSE CommandError(response)
\* arm()'s `response == b"ok\r\n"` on the response to EN 1
ArmResult(response) == IF response = OK THEN Return("True") ELSE CommandError(response)

\* mutant: `response.startswith(b"ok")`
DisarmResultPrefix(response) ==
  IF Len(response) >= 2 /\ response[1] = "o" /\ response[2] = "k" THEN Return("True")
  ELSE CommandError(response)
\* disarm()'s `response == b"ok\r\n"` on the response to EN 0
DisarmResult(response) == IF response = OK THEN Return("True") ELSE CommandError(response)

\* ----------------------------------------------------- the device's answers

\* What read_until may return for a command: nothing (a timeout), a NACK, or
\* the command's payload.
AckReplies == {Empty, OK, OkCr, Nack(5)}
\* the answers to EN?: armed, not armed
ArmedReplies == {<<"1", "\r">>, <<"0", "\r">>}
QueryReplies(op) == {Empty, Nack(5), DeviceValue(op)}
Replies(cmd) ==
  IF cmd = CmdSS THEN {Empty, Nack(5)} \cup StatusReplies
  ELSE IF cmd = CmdENq THEN {Empty, Nack(5)} \cup ArmedReplies
  ELSE IF \E op \in Getters : cmd = QueryCmd(op)
  THEN QueryReplies(CHOOSE op \in Getters : cmd = QueryCmd(op))
  ELSE AckReplies
\* every answer to a getter's query
AllQueryReplies == UNION {QueryReplies(op) : op \in Getters}

\* -------------------------------------------------------------------- fire

\* mutant: every pulse mode is taken for burst mode
FireDurationBurstAlways(p) ==
  IF p.repRate.n = 0 THEN Raise("ZeroDivisionError", <<"division by zero">>)
  ELSE Return(TrueDiv(p.burstCount, p.repRate))
\* fire()'s fire_duration from the cache, or the error it raises
FireDuration(p) ==
  IF NumEq(p.pulseMode, PyI(0)) \/ NumEq(p.pulseMode, PyI(1))
  THEN IF p.repRate.n = 0 THEN Raise("ZeroDivisionError", <<"division by zero">>)
       ELSE Return(TrueDiv(PyI(1), p.repRate))
  ELSE IF NumEq(p.pulseMode, PyI(2))
  THEN IF p.repRate.n = 0 THEN Raise("ZeroDivisionError", <<"division by zero">>)
       ELSE Return(TrueDiv(p.burstCount, p.repRate))
  ELSE Raise("LaserCommandError", <<"Invalid pulse mode set for laser!">>)

\* mutant: only the armed check is made
FirePreconditionArmedOnly(status) ==
  IF ~status.laser_enabled THEN Raise("LaserCommandError", <<"Laser not armed!">>) ELSE NoOutcome
\* fire()'s precondition checks on the status it queried: the error, or none
FirePrecondition(status) ==
  IF ~status.laser_enabled THEN Raise("LaserCommandError", <<"Laser not armed!">>)
  ELSE IF ~status.ready_to_fire THEN Raise("LaserCommandError", <<"Laser not ready to fire!">>)
  ELSE NoOutcome

\* mutant: `if fire_duration > 3`
NeedsKickerAbove(d) == NumLt(PyI(3), d)
\* `if fire_duration >= 3`
NeedsKicker(d) == ~NumLt(d, PyI(3))

\* mutant: a timeout is taken for an acknowledgement
FireAckedOrSilent(response) == response = OK \/ response = Empty
\* `fire_response != b"ok\r\n"` negated
FireAcked(response) == response = OK

\* mutant: the elapsed counter alone decides
SessionOverElapsedOnly(status, timer, dur) == NumLt(dur, PyI(timer))
\* mutant: `laser._fire_timer >= laser.fire_duration`
SessionOverOrEqual(status, timer, dur) == ~status.laser_active /\ NumLe(dur, PyI(timer))
\* _kicker_callback's `not status.laser_active and laser._fire_timer > laser.fire_duration`
SessionOver(status, timer, dur) == ~status.laser_active /\ NumLt(dur, PyI(timer))

\* attributes of a Laser that some statement of the class assigns
LaserAttributes ==
  {"_ser", "pulseMode", "pulsePeriod", "repRate", "burstCount", "pulseWidth", "diodeTrigger",
   "emergencyStopActive", "_lock", "_device_address", "connected", "_fire_timer",
   "_kicker_interval", "_kicker", "fire_duration", "burstDuration", "diodeCurrent", "energyMode"}

\* ------------------------------------------------------------------- state

VARIABLES
  connected,            \* self.connected
  ser,                  \* self._ser: "None", "open", or "closed" (after close())
  lock,                 \* self._lock: "free" or the thread holding it
  wire,                 \* the link's trace: its last MaxWire writes and reads, each
                        \* with the thread and the framed command it belongs to
  params,               \* the cached parameters (pulseMode ... diodeTrigger)
  fire_duration,        \* self.fire_duration: <<>> until fire() first sets it
  fire_timer,           \* self._fire_timer
  kicker_running,       \* whether self._kicker is started
  emergencyStopActive,  \* self.emergencyStopActive
  pc,                   \* where each thread is: [site, ph]
  call,                 \* the caller's current (or last) call
  tick                  \* the kicker's current (or last) tick

vars ==
  <<connected, ser, lock, wire, params, fire_duration, fire_timer, kicker_running,
    emergencyStopActive, pc, call, tick>>

Threads == {"caller", "kicker"}
Idle == [site |-> "idle", ph |-> ""]
At(site, ph) == [site |-> site, ph |-> ph]

\* self._kicker_interval
kicker_interval == 1

\* mutant: a tick leaves the elapsed counter as it is
ElapsedStuck(timer) == timer
\* `laser._fire_timer += laser._kicker_interval`
Elapsed(timer) == timer + kicker_interval

\* Laser.__init__'s defaults
DefaultParams ==
  [pulseMode |-> PyI(0), pulsePeriod |-> PyI(0), repRate |-> PyI(1),
   burstCount |-> PyI(10), pulseWidth |-> PyI(10), diodeTrigger |-> PyI(0)]

NoCall ==
  [op |-> "none", arg |-> <<>>, conn |-> FALSE, before |-> DefaultParams, writes |-> <<>>,
   resp |-> <<>>, status |-> <<>>, dur |-> <<>>, kicked |-> FALSE, out |-> NoOutcome]
NoTick ==
  [timer0 |-> 0, dur0 |-> <<>>, status |-> <<>>, caught |-> FALSE, stopped |-> FALSE,
   writes |-> <<>>, out |-> NoOutcome]

\* a call of `op` with argument tuple `arg`, begun in the current state
NewCall(op, arg) ==
  [NoCall EXCEPT !.op = op, !.arg = arg, !.conn = connected, !.before = params, !.out = Running]

Init ==
  /\ connected = FALSE
  /\ ser = "None"
  /\ lock = "free"
  /\ wire = <<>>
  /\ params = DefaultParams
  /\ fire_duration = <<>>
  /\ fire_timer = 0
  /\ kicker_running = FALSE
  /\ emergencyStopActive = FALSE
  /\ pc = [t \in Threads |-> Idle]
  /\ call = NoCall
  /\ tick = NoTick

\* ----------------------------------------------------- RepeatedTimer (kicker)

\* RepeatedTimer.start() and stop(), as the running flag they leave
TimerStart(running) == TRUE
TimerStop(running) == FALSE

\* ------------------------------------------------------------- _send_command

\* the command thread t is sending, by the call site it is at
Cmd(t) ==
  CASE pc[t].site = "raw" -> call.arg[1]
    [] pc[t].site \in {"get_status", "fire_ss", "tick_ss"} -> CmdSS
    [] pc[t].site = "fire_fl1" -> CmdFL1
    [] pc[t].site \in {"fire_fl0", "tick_fl0"} -> CmdFL0
    [] pc[t].site = "set" -> SetCmd(call.op, call.arg[1])
    [] pc[t].site = "get" -> QueryCmd(call.op)
    [] pc[t].site = "refresh" -> QueryCmd(RefreshOrder[Len(call.resp) + 1])
    [] pc[t].site \in {"is_armed", "arm_q"} -> CmdENq
    [] pc[t].site = "arm_en" -> CmdEN1
    [] pc[t].site = "disarm" -> CmdEN0



Range(s) == {s[i] : i \in 1..Len(s)}
Push(w, e) == IF Len(w) < MaxWire THEN Append(w, e) ELSE Append(Tail(w), e)

\* mutant: the with block is dropped, nothing waits for the lock
LockFreeIgnored(t) == TRUE
\* `with self._lock`: the lock can be taken
LockFree(t) == lock = "free"

\* the exception a write or read on self._ser raises when it is not an open port
HandleError == IF ser = "None" THEN "AttributeError" ELSE "SerialException"

\* Thread t's operation ends with `out`.
Finish(t, out) ==
  /\ pc' = [pc EXCEPT ![t] = Idle]
  /\ IF t = "caller"
     THEN call' = [call EXCEPT !.out = out] /\ UNCHANGED tick
     ELSE tick' = [tick EXCEPT !.out = out] /\ UNCHANGED call

\* What thread t has written and read in its current operation.
Logged(t, rec) == IF t = "caller" THEN call' = rec /\ UNCHANGED tick ELSE tick' = rec /\ UNCHANGED call
Log(t) == IF t = "caller" THEN call ELSE tick

\* mutant: the connection check is dropped
NotConnectedIgnored == FALSE
\* `not self.connected`
NotConnected == ~connected

\* `if not self.connected: raise ConnectionError`
SendCheck(t) ==
  /\ pc[t].ph = "check"
  /\ IF NotConnected
     THEN Finish(t, Raise("ConnectionError", <<"Not connected to a serial port.">>))
     ELSE pc' = [pc EXCEPT ![t].ph = "write"] /\ UNCHANGED <<call, tick>>
  /\ UNCHANGED <<connected, ser, lock, wire, params, fire_duration, fire_timer,
                 kicker_running, emergencyStopActive>>

\* `with self._lock: self._ser.write(cmd_complete.encode("ascii"))`
SendWrite(t) ==
  /\ pc[t].ph = "write"
  /\ LockFree(t)
  /\ IF ser /= "open"
     THEN /\ Finish(t, Raise(HandleError, <<"write">>))
          /\ UNCHANGED <<lock, wire>>
     ELSE /\ lock' = t
          /\ wire' = Push(wire, [k |-> "w", who |-> t, cmd |-> Frame(Cmd(t))])
          /\ pc' = [pc EXCEPT ![t].ph = "read"]
          /\ Logged(t, [Log(t) EXCEPT !.writes = Append(@, Cmd(t))])
  /\ UNCHANGED <<connected, ser, params, fire_duration, fire_timer, kicker_running,
                 emergencyStopActive>>

\* `response = self._ser.read_until("\r")` on a handle that is gone; the with
\* block releases the lock as the exception leaves it
SendReadFails(t) ==
  /\ pc[t].ph = "read"
  /\ ser /= "open"
  /\ lock' = "free"
  /\ Finish(t, Raise(HandleError, <<"read_until">>))
  /\ UNCHANGED <<connected, ser, wire, params, fire_duration, fire_timer, kicker_running,
                 emergencyStopActive>>

\* `response = self._ser.read_until("\r")` and the end of the with block:
\* the part of a read every call site shares
Receive(t, site, response) ==
  /\ pc[t] = At(site, "read")
  /\ ser = "open"
  /\ response \in Replies(Cmd(t))
  /\ lock' = "free"
  /\ wire' = Push(wire, [k |-> "r", who |-> t, cmd |-> Frame(Cmd(t))])
  /\ UNCHANGED <<connected, ser, emergencyStopActive>>

\* ------------------------------------------------------- the caller's calls

CallerIdle == pc["caller"] = Idle
\* the caller's call goes on at `site`, or ends, with its record `rec`
CallerGoto(site, ph, rec) == pc' = [pc EXCEPT !["caller"] = At(site, ph)] /\ call' = rec /\ UNCHANGED tick
CallerDone(rec) == pc' = [pc EXCEPT !["caller"] = Idle] /\ call' = rec /\ UNCHANGED tick

\* connect(port, baud_rate, timeout, parity): under the lock, a fresh handle is
\* stored (its trace starts empty), and connected is set unless an argument is
\* refused (valid = FALSE)
Connect(valid) ==
  /\ CallerIdle
  /\ LockFree("caller")
  /\ ser' = "open"
  /\ wire' = <<>>
  /\ connected' = (IF valid THEN TRUE ELSE connected)
  /\ CallerDone([NewCall("connect", <<valid>>) EXCEPT
                   !.out = IF valid THEN Return("None")
                           ELSE Raise("ValueError", <<"Error: baud_rate parameter must be an integer">>)])
  /\ UNCHANGED <<lock, params, fire_duration, fire_timer, kicker_running, emergencyStopActive>>

\* disconnect(): `if not self.connected: return`, else self._ser.close()
Disconnect ==
  /\ CallerIdle
  /\ IF ~connected
     THEN CallerDone([NewCall("disconnect", <<>>) EXCEPT !.out = Return("None")]) /\ UNCHANGED ser
     ELSE CallerGoto("disconnect_flag", "", NewCall("disconnect", <<>>)) /\ ser' = "closed"
  /\ UNCHANGED <<connected, lock, wire, params, fire_duration, fire_timer, kicker_running,
                 emergencyStopActive>>

\* disconnect(): self.connected = False
DisconnectFlag ==
  /\ pc["caller"].site = "disconnect_flag"
  /\ connected' = FALSE
  /\ CallerGoto("disconnect_handle", "", call)
  /\ UNCHANGED <<ser, lock, wire, params, fire_duration, fire_timer, kicker_running,
                 emergencyStopActive>>

\* disconnect(): self._ser = None
DisconnectHandle ==
  /\ pc["caller"].site = "disconnect_handle"
  /\ ser' = "None"
  /\ CallerDone([call EXCEPT !.out = Return("None")])
  /\ UNCHANGED <<connected, lock, wire, params, fire_duration, fire_timer, kicker_running,
                 emergencyStopActive>>

\* _send_command(cmd) called directly: `if len(cmd) == 0: return`
SendRaw(cmd) ==
  /\ CallerIdle
  /\ IF Len(cmd) = 0
     THEN CallerDone([NewCall("_send_command", <<cmd>>) EXCEPT !.out = Return("None")])
     ELSE CallerGoto("raw", "check", NewCall("_send_command", <<cmd>>))
  /\ UNCHANGED <<connected, ser, lock, wire, params, fire_duration, fire_timer, kicker_running,
                 emergencyStopActive>>

\* _send_command: `return response`
SendRawRead(response) ==
  /\ Receive("caller", "raw", response)
  /\ CallerDone([call EXCEPT !.resp = <<response>>, !.out = Return(response)])
  /\ UNCHANGED <<params, fire_duration, fire_timer, kicker_running>>

\* get_status()
GetStatus ==
  /\ CallerIdle
  /\ CallerGoto("get_status", "check", NewCall("get_status", <<>>))
  /\ UNCHANGED <<connected, ser, lock, wire, params, fire_duration, fire_timer, kicker_running,
                 emergencyStopActive>>

GetStatusRead(response) ==
  /\ Receive("caller", "get_status", response)
  /\ LET r == get_status(response)
     IN CallerDone([call EXCEPT !.resp = <<response>>,
                                !.status = IF r.kind = "return" THEN r.val ELSE <<>>,
                                !.out = r])
  /\ UNCHANGED <<params, fire_duration, fire_timer, kicker_running>>

\* fire(): `status = self.get_status()`
Fire ==
  /\ CallerIdle
  /\ CallerGoto("fire_ss", "check", NewCall("fire", <<>>))
  /\ UNCHANGED <<connected, ser, lock, wire, params, fire_duration, fire_timer, kicker_running,
                 emergencyStopActive>>

\* where fire() goes once the preconditions have passed
AfterPrecondition(d) == IF NeedsKicker(d) THEN At("fire_kick", "") ELSE At("fire_fl1", "check")

\* fire(): the status arrives; fire_duration is computed and stored, then the
\* preconditions are checked
FireStatus(response) ==
  /\ Receive("caller", "fire_ss", response)
  /\ LET r == get_status(response)
         d == FireDuration(params)
         rec == [call EXCEPT !.status = IF r.kind = "return" THEN r.val ELSE <<>>]
     IN IF r.kind = "raise"
        THEN CallerDone([rec EXCEPT !.out = r]) /\ UNCHANGED fire_duration
        ELSE IF d.kind = "raise"
        THEN CallerDone([rec EXCEPT !.out = d]) /\ UNCHANGED fire_duration
        ELSE /\ fire_duration' = d.val
             /\ LET pre == FirePrecondition(r.val[1])
                    next == AfterPrecondition(d.val[1])
                IN IF pre.kind = "raise"
                   THEN CallerDone([rec EXCEPT !.dur = d.val, !.out = pre])
                   ELSE CallerGoto(next.site, next.ph, [rec EXCEPT !.dur = d.val])
  /\ UNCHANGED <<params, fire_timer, kicker_running>>

\* fire(): self._kicker.start()
FireKick ==
  /\ pc["caller"].site = "fire_kick"
  /\ kicker_running' = TimerStart(kicker_running)
  /\ CallerGoto("fire_fl1", "check", [call EXCEPT !.kicked = TRUE])
  /\ UNCHANGED <<connected, ser, lock, wire, params, fire_duration, fire_timer,
                 emergencyStopActive>>

\* fire(): the response to FL 1
FireFL1(response) ==
  /\ Receive("caller", "fire_fl1", response)
  /\ IF FireAcked(response)
     THEN CallerDone([call EXCEPT !.resp = <<response>>, !.out = Return("None")])
     ELSE CallerGoto("fire_fl0", "check", [call EXCEPT !.resp = <<response>>])
  /\ UNCHANGED <<params, fire_duration, fire_timer, kicker_running>>

\* fire(): the response to the aborting FL 0 is dropped and the error for
\* fire_response is raised
FireFL0(response) ==
  /\ Receive("caller", "fire_fl0", response)
  /\ CallerDone([call EXCEPT !.out = CommandError(call.resp[1])])
  /\ UNCHANGED <<params, fire_duration, fire_timer, kicker_running>>

\* emergency_stop(): the flag is set, then `self.fireThread not in self._threads`
\* reads attributes no statement assigns, so the FL 0 below it is never reached
EmergencyStop ==
  /\ CallerIdle
  /\ emergencyStopActive' = TRUE
  /\ "fireThread" \notin LaserAttributes
  /\ CallerDone([NewCall("emergency_stop", <<>>) EXCEPT
                   !.out = Raise("AttributeError", <<"'Laser' object has no attribute 'fireThread'">>)])
  /\ UNCHANGED <<connected, ser, lock, wire, params, fire_duration, fire_timer, kicker_running>>

\* a setter called with x: the validation, then _send_command
Setter(op, x) ==
  /\ CallerIdle
  /\ IF ValidArg(op, x)
     THEN CallerGoto("set", "check", NewCall(op, <<x>>))
     ELSE CallerDone([NewCall(op, <<x>>) EXCEPT !.out = ValidationError(op, x)])
  /\ UNCHANGED <<connected, ser, lock, wire, params, fire_duration, fire_timer, kicker_running,
                 emergencyStopActive>>

\* a setter: the response arrives
SetterRead(response) ==
  /\ Receive("caller", "set", response)
  /\ LET r == SetterResult(call.op, call.arg[1], params, response)
     IN /\ params' = r.params
        /\ CallerDone([call EXCEPT !.resp = <<response>>, !.out = r.out])
  /\ UNCHANGED <<fire_duration, fire_timer, kicker_running>>

\* a parameter getter: _send_command of its query
Getter(op) ==
  /\ CallerIdle
  /\ CallerGoto("get", "check", NewCall(op, <<>>))
  /\ UNCHANGED <<connected, ser, lock, wire, params, fire_duration, fire_timer, kicker_running,
                 emergencyStopActive>>

\* a getter: the response arrives
GetterRead(response) ==
  /\ Receive("caller", "get", response)
  /\ CallerDone([call EXCEPT !.resp = <<response>>, !.out = GetterResult(call.op, response)])
  /\ UNCHANGED <<params, fire_duration, fire_timer, kicker_running>>

\* is_armed()
IsArmed ==
  /\ CallerIdle
  /\ CallerGoto("is_armed", "check", NewCall("is_armed", <<>>))
  /\ UNCHANGED <<connected, ser, lock, wire, params, fire_duration, fire_timer, kicker_running,
                 emergencyStopActive>>

IsArmedRead(response) ==
  /\ Receive("caller", "is_armed", response)
  /\ CallerDone([call EXCEPT !.resp = <<response>>, !.out = is_armed(response)])
  /\ UNCHANGED <<params, fire_duration, fire_timer, kicker_running>>

\* arm(): `if self.is_armed()`
Arm ==
  /\ CallerIdle
  /\ CallerGoto("arm_q", "check", NewCall("arm", <<>>))
  /\ UNCHANGED <<connected, ser, lock, wire, params, fire_duration, fire_timer, kicker_running,
                 emergencyStopActive>>

\* arm(): is_armed()'s answer; an error leaves arm(), True raises "Laser
\* already armed", False goes on to EN 1
ArmQuery(response) ==
  /\ Receive("caller", "arm_q", response)
  /\ LET r == is_armed(response)
         rec == [call EXCEPT !.resp = <<response>>]
     IN IF r.kind = "raise" THEN CallerDone([rec EXCEPT !.out = r])
        ELSE IF r.val[1]
        THEN CallerDone([rec EXCEPT !.out = Raise("LaserCommandError", <<"Laser already armed">>)])
        ELSE CallerGoto("arm_en", "check", rec)
  /\ UNCHANGED <<params, fire_duration, fire_timer, kicker_running>>

\* arm(): the response to EN 1
ArmRead(response) ==
  /\ Receive("caller", "arm_en", response)
  /\ CallerDone([call EXCEPT !.resp = Append(@, response), !.out = ArmResult(response)])
  /\ UNCHANGED <<params, fire_duration, fire_timer, kicker_running>>

\* disarm(): _send_command('EN 0'), with no query before it
Disarm ==
  /\ CallerIdle
  /\ CallerGoto("disarm", "check", NewCall("disarm", <<>>))
  /\ UNCHANGED <<connected, ser, lock, wire, params, fire_duration, fire_timer, kicker_running,
                 emergencyStopActive>>

\* disarm(): the response to EN 0
DisarmRead(response) ==
  /\ Receive("caller", "disarm", response)
  /\ CallerDone([call EXCEPT !.resp = <<response>>, !.out = DisarmResult(response)])
  /\ UNCHANGED <<params, fire_duration, fire_timer, kicker_running>>

\* refresh_parameters(): the first getter
Refresh ==
  /\ CallerIdle
  /\ CallerGoto("refresh", "check", NewCall("refresh_parameters", <<>>))
  /\ UNCHANGED <<connected, ser, lock, wire, params, fire_duration, fire_timer, kicker_running,
                 emergencyStopActive>>

\* refresh_parameters(): a getter's response arrives; what the getter returns
\* is assigned to its field and the next getter is called, what it raises
\* leaves refresh_parameters
RefreshRead(response) ==
  /\ Receive("caller", "refresh", response)
  /\ LET k == Len(call.resp) + 1
         r == GetterResult(RefreshOrder[k], response)
         rec == [call EXCEPT !.resp = Append(@, response)]
     IN IF r.kind = "raise"
        THEN CallerDone([rec EXCEPT !.out = r]) /\ UNCHANGED params
        ELSE /\ params' = [params EXCEPT ![GetterField(RefreshOrder[k])] = r.val[1]]
             /\ IF k = 6 THEN CallerDone([rec EXCEPT !.out = Return("None")])
                ELSE CallerGoto("refresh", "check", rec)
  /\ UNCHANGED <<fire_duration, fire_timer, kicker_running>>

\* LaserStatusResponse(i): the object is built from the integer
StatusDecode ==
  /\ call.op = "LaserStatusResponse"
  /\ call.out = Running
  /\ call' = [call EXCEPT !.status = <<LaserStatusResponse(call.arg[1])>>, !.out = Return("None")]
  /\ UNCHANGED <<connected, ser, lock, wire, params, fire_duration, fire_timer, kicker_running,
                 emergencyStopActive, pc, tick>>

\* int(s) on the object built
StatusEncode ==
  /\ call.op = "LaserStatusResponse"
  /\ call.status /= <<>>
  /\ call' = [call EXCEPT !.op = "__int__", !.out = Return(__int__(call.status[1]))]
  /\ UNCHANGED <<connected, ser, lock, wire, params, fire_duration, fire_timer, kicker_running,
                 emergencyStopActive, pc, tick>>

\* ------------------------------------------------------------ the kicker

\* the timer fires: _kicker_callback begins with laser.get_status()
Tick ==
  /\ kicker_running
  /\ pc["kicker"] = Idle
  /\ fire_timer <= MaxFireTimer
  /\ pc' = [pc EXCEPT !["kicker"] = At("tick_ss", "check")]
  /\ tick' = [NoTick EXCEPT !.timer0 = fire_timer, !.out = Running]
  /\ UNCHANGED <<connected, ser, lock, wire, params, fire_duration, fire_timer, kicker_running,
                 emergencyStopActive, call>>

\* _kicker_callback once the status arrives: a LaserCommandError is caught and
\* FL 0 sent; any other error leaves the callback; a status is judged
TickStatus(response) ==
  /\ Receive("kicker", "tick_ss", response)
  /\ LET r == get_status(response)
         rec == [tick EXCEPT !.status = IF r.kind = "return" THEN r.val ELSE <<>>]
     IN IF r.kind = "raise" /\ r.exc = "LaserCommandError"
        THEN /\ pc' = [pc EXCEPT !["kicker"] = At("tick_fl0", "check")]
             /\ tick' = [rec EXCEPT !.caught = TRUE]
             /\ UNCHANGED <<fire_timer, kicker_running>>
        ELSE IF r.kind = "raise"
        THEN /\ pc' = [pc EXCEPT !["kicker"] = Idle]
             /\ tick' = [rec EXCEPT !.out = r]
             /\ UNCHANGED <<fire_timer, kicker_running>>
        ELSE /\ pc' = [pc EXCEPT !["kicker"] = Idle]
             /\ LET over == SessionOver(r.val[1], fire_timer, fire_duration[1])
                IN /\ tick' = [rec EXCEPT !.dur0 = fire_duration, !.stopped = over,
                                          !.out = Return("None")]
                   /\ IF over
                      THEN kicker_running' = TimerStop(kicker_running) /\ fire_timer' = 0
                      ELSE fire_timer' = Elapsed(fire_timer) /\ UNCHANGED kicker_running
  /\ UNCHANGED <<params, fire_duration, call>>

\* _kicker_callback's except block after FL 0: the kicker is stopped, and the
\* `if not status` that follows reads a local that was never bound
TickFL0(response) ==
  /\ Receive("kicker", "tick_fl0", response)
  /\ kicker_running' = TimerStop(kicker_running)
  /\ pc' = [pc EXCEPT !["kicker"] = Idle]
  /\ tick' = [tick EXCEPT !.stopped = TRUE,
                          !.out = Raise("UnboundLocalError", <<"local variable 'status' referenced before assignment">>)]
  /\ UNCHANGED <<params, fire_duration, fire_timer, call>>

\* ----------------------------------------------------------- specifications

\* what the caller passes in
RawCommands == {<<>>, <<"H", "I">>}
FiringSetterCalls == {<<"set_pulse_mode", PyI(2)>>, <<"set_burst_count", PyI(3)>>}
SetterCalls ==
  {<<"set_pulse_mode", PyI(2)>>, <<"set_pulse_mode", PyI(3)>>,
   <<"set_pulse_period", PyI(2)>>, <<"set_pulse_period", PyI(0)>>,
   <<"set_repetition_rate", PyI(5)>>, <<"set_repetition_rate", PyI(6)>>,
   <<"set_burst_count", PyI(3)>>, <<"set_burst_count", PyI(0)>>,
   <<"set_pulse_width", PyI(1)>>, <<"set_pulse_width", PyI(-5)>>,
   <<"set_diode_trigger", PyI(1)>>, <<"set_diode_trigger", PyI(6)>>,
   <<"set_pulse_width", PyStr>>, <<"set_burst_count", PyStr>>}

\* the steps of a _send_command, whoever makes it
Transport ==
  \/ \E t \in Threads : SendCheck(t)
  \/ \E t \in Threads : SendWrite(t)
  \/ \E t \in Threads : SendReadFails(t)

Connection ==
  \/ \E valid \in BOOLEAN : Connect(valid)
  \/ Disconnect
  \/ DisconnectFlag
  \/ DisconnectHandle

\* The caller connects, sets the firing parameters, fires and stops; the
\* kicker ticks.
Next ==
  \/ Transport
  \/ Connection
  \/ Fire
  \/ \E r \in Replies(CmdSS) : FireStatus(r)
  \/ FireKick
  \/ \E r \in Replies(CmdFL1) : FireFL1(r)
  \/ \E r \in Replies(CmdFL0) : FireFL0(r)
  \/ EmergencyStop
  \/ \E c \in FiringSetterCalls : Setter(c[1], c[2])
  \/ \E r \in AckReplies : SetterRead(r)
  \/ Tick
  \/ \E r \in Replies(CmdSS) : TickStatus(r)
  \/ \E r \in Replies(CmdFL0) : TickFL0(r)

Spec == Init /\ [][Next]_vars

\* a step of the kicker thread: the timer fires, or the callback goes on
KickerStep ==
  \/ Tick
  \/ SendCheck("kicker")
  \/ SendWrite("kicker")
  \/ SendReadFails("kicker")
  \/ \E r \in Replies(CmdSS) : TickStatus(r)
  \/ \E r \in Replies(CmdFL0) : TickFL0(r)

\* the caller leaves the with block of its _send_command: read_until returns
\* within the port's timeout, or raises
CallerRelease == lock = "caller" /\ Next /\ lock' = "free"

\* Spec with its scheduling: the timer keeps firing while it is started and
\* the callback is not starved of the lock (strong fairness, as the lock is
\* free again and again); a caller inside _send_command finishes its read.
SpecWatchdog == Spec /\ SF_vars(KickerStep) /\ WF_vars(CallerRelease)

\* The caller connects, sends commands, queries the status and uses the
\* parameter setters; fire() is never called, so the kicker never runs.
NextCalls ==
  \/ \E t \in Threads : SendCheck(t)
  \/ \E t \in Threads : SendWrite(t)
  \/ Connection
  \/ \E cmd \in RawCommands : SendRaw(cmd)
  \/ \E r \in AckReplies : SendRawRead(r)
  \/ GetStatus
  \/ \E r \in Replies(CmdSS) : GetStatusRead(r)
  \/ \E c \in SetterCalls : Setter(c[1], c[2])
  \/ \E r \in AckReplies : SetterRead(r)

SpecCalls == Init /\ [][NextCalls]_vars

\* The caller connects and queries: the parameter getters, is_armed, arm and
\* refresh_parameters; fire() is never called, so the kicker never runs.
NextQueries ==
  \/ \E t \in Threads : SendCheck(t)
  \/ \E t \in Threads : SendWrite(t)
  \/ Connection
  \/ GetStatus
  \/ \E r \in Replies(CmdSS) : GetStatusRead(r)
  \/ \E op \in Getters : Getter(op)
  \/ \E r \in AllQueryReplies : GetterRead(r)
  \/ IsArmed
  \/ \E r \in Replies(CmdENq) : IsArmedRead(r)
  \/ Arm
  \/ \E r \in Replies(CmdENq) : ArmQuery(r)
  \/ \E r \in AckReplies : ArmRead(r)
  \/ Disarm
  \/ \E r \in AckReplies : DisarmRead(r)
  \/ Refresh
  \/ \E r \in AllQueryReplies : RefreshRead(r)

SpecQueries == Init /\ [][NextQueries]_vars

\* The status word: an object is built from a status integer and converted
\* back with int().
InitStatus ==
  /\ connected = FALSE
  /\ ser = "None"
  /\ lock = "free"
  /\ wire = <<>>
  /\ params = DefaultParams
  /\ fire_duration = <<>>
  /\ fire_timer = 0
  /\ kicker_running = FALSE
  /\ emergencyStopActive = FALSE
  /\ pc = [t \in Threads |-> Idle]
  /\ call \in {[NoCall EXCEPT !.op = "LaserStatusResponse", !.arg = <<i>>, !.out = Running] :
                 i \in 0..MaxStatus}
  /\ tick = NoTick

NextStatus == StatusDecode \/ StatusEncode

SpecStatus == InitStatus /\ [][NextStatus]_vars

\* Lasers constructed with a pulse mode, repetition rate and burst count of
\* the caller's choosing (Laser(pulseMode = m, repRate = r, burstCount = b)),
\* then connected and fired.
PulseModes == {PyI(0), PyI(1), PyI(2), PyI(3)}
RepRates == {PyI(1), PyI(2), PyI(5)}
BurstCounts == {PyI(3), PyI(10)}

InitFire ==
  /\ connected = FALSE
  /\ ser = "None"
  /\ lock = "free"
  /\ wire = <<>>
  /\ params \in {[DefaultParams EXCEPT !.pulseMode = m, !.repRate = r, !.burstCount = b] :
                   m \in PulseModes, r \in RepRates, b \in BurstCounts}
  /\ fire_duration = <<>>
  /\ fire_timer = 0
  /\ kicker_running = FALSE
  /\ emergencyStopActive = FALSE
  /\ pc = [t \in Threads |-> Idle]
  /\ call = NoCall
  /\ tick = NoTick

NextFire ==
  \/ \E t \in Threads : SendCheck(t)
  \/ \E t \in Threads : SendWrite(t)
  \/ Connection
  \/ Fire
  \/ \E r \in Replies(CmdSS) : FireStatus(r)
  \/ FireKick
  \/ \E r \in Replies(CmdFL1) : FireFL1(r)
  \/ \E r \in Replies(CmdFL0) : FireFL0(r)

SpecFire == InitFire /\ [][NextFire]_vars

\* ------------------------------------------------------------------ claims

CallOver == call.out.kind \in {"return", "raise"}
TickOver == tick.out.kind \in {"return", "raise"}

\* C1: on the link, every write is followed by the read of the same thread for
\* the same command before any other write: the trace is (write, read) pairs.
C1_WirePairs ==
  \A i \in 1..(Len(wire) - 1) :
    /\ wire[i].k = "w" =>
         wire[i + 1].k = "r" /\ wire[i + 1].who = wire[i].who /\ wire[i + 1].cmd = wire[i].cmd
    /\ wire[i].k = "r" => wire[i + 1].k = "w"

\* C1's case: one thread has written and holds the lock while the other waits
\* to write, right after a completed exchange of the other thread.
C1_Witness ==
  /\ lock = "caller"
  /\ pc["kicker"].ph = "write"
  /\ Len(wire) = 2
  /\ wire[1] = [k |-> "r", who |-> "kicker", cmd |-> Frame(CmdSS)]
  /\ wire[2] = [k |-> "w", who |-> "caller", cmd |-> Frame(CmdFL1)]

\* C2: fire() writes FL 1 only after its own status query reported laser_enabled
\* and ready_to_fire; when the status lacks either flag, fire() raises
\* LaserCommandError, writes no FL 1 and does not start the kicker.
C2_FireGated ==
  call.op = "fire" =>
    /\ CmdFL1 \in Range(call.writes) =>
         call.status /= <<>> /\ call.status[1].laser_enabled /\ call.status[1].ready_to_fire
    /\ (call.status /= <<>> /\ ~(call.status[1].laser_enabled /\ call.status[1].ready_to_fire)) =>
         /\ call.out.kind = "raise"
         /\ call.out.exc = "LaserCommandError"
         /\ CmdFL1 \notin Range(call.writes)
         /\ ~call.kicked

\* C2's case: a fire() in burst mode (a duration that needs the kicker) whose
\* status reports the laser enabled but not ready to fire has raised.
C2_Witness ==
  /\ call.op = "fire"
  /\ call.status /= <<>>
  /\ call.status[1].laser_enabled
  /\ ~call.status[1].ready_to_fire
  /\ call.dur /= <<>>
  /\ ~NumLt(call.dur[1], PyI(3))
  /\ call.out.kind = "raise"

\* C3: in a fire() whose fire_duration is >= 3, FL 1 is written only after the
\* call has started the kicker.
C3_KickerBeforeFire ==
  (call.op = "fire" /\ call.dur /= <<>> /\ ~NumLt(call.dur[1], PyI(3))
     /\ CmdFL1 \in Range(call.writes)) => call.kicked

\* C3's case: FL 1 has just been written by a fire() of duration exactly 3.
C3_Witness ==
  /\ pc["caller"] = At("fire_fl1", "read")
  /\ call.dur /= <<>>
  /\ NumEq(call.dur[1], PyI(3))
  /\ call.kicked

\* C4: a fire() whose FL 1 got anything but the success token has written FL 0
\* after it, and then raised LaserCommandError.
C4_AbortOnFailedFire ==
  (call.op = "fire" /\ CallOver /\ call.resp /= <<>> /\ call.resp[1] /= OK) =>
    /\ call.out.kind = "raise"
    /\ call.out.exc = "LaserCommandError"
    /\ call.writes = <<CmdSS, CmdFL1, CmdFL0>>

\* C4's case: FL 1 timed out, FL 0 was written and fire() raised the
\* no-response error.
C4_Witness ==
  /\ call.op = "fire"
  /\ call.resp = <<Empty>>
  /\ call.writes = <<CmdSS, CmdFL1, CmdFL0>>
  /\ call.out = Raise("LaserCommandError", NoResponse)

\* C5: when fire() started the kicker and FL 1 is not acknowledged, the kicker
\* is stopped once fire() has raised.
C5_KickerStoppedOnFailedFire ==
  (call.op = "fire" /\ call.out.kind = "raise" /\ call.kicked
     /\ call.resp /= <<>> /\ call.resp[1] /= OK) => ~kicker_running

\* C6: a tick whose status reports laser_active while the elapsed counter
\* already exceeds fire_duration aborts: it writes FL 0 and stops the kicker.
C6_OverrunAborts ==
  (TickOver /\ tick.status /= <<>> /\ tick.status[1].laser_active
     /\ tick.dur0 /= <<>> /\ NumLt(tick.dur0[1], PyI(tick.timer0))) =>
    CmdFL0 \in Range(tick.writes) /\ tick.stopped

\* C7: a tick whose status query raised LaserCommandError (the link staying
\* up) writes FL 0 once, stops the kicker, lets no error out of the callback
\* and leaves the elapsed counter as it was.
C7_TickAbsorbsQueryFailure ==
  (TickOver /\ tick.caught /\ connected /\ ser = "open") =>
    /\ tick.writes = <<CmdSS, CmdFL0>>
    /\ tick.stopped
    /\ tick.out.kind = "return"
    /\ fire_timer = tick.timer0

\* C8: emergency_stop() on a connected Laser writes FL 0 and then returns True
\* or raises LaserCommandError.
C8_EmergencyStopSendsFL0 ==
  (call.op = "emergency_stop" /\ call.conn /\ CallOver) =>
    /\ CmdFL0 \in Range(call.writes)
    /\ call.out = Return("True") \/ (call.out.kind = "raise" /\ call.out.exc = "LaserCommandError")

\* C9 as claimed: _send_command on a Laser that is not connected raises
\* ConnectionError for every command string, and writes nothing.
C9_EveryCommandRefused ==
  (call.op = "_send_command" /\ ~call.conn /\ CallOver) =>
    call.out.kind = "raise" /\ call.out.exc = "ConnectionError" /\ call.writes = <<>>

\* C9 as amended: _send_command on a Laser that is not connected writes
\* nothing; for a non-empty command string it raises ConnectionError, for the
\* empty string it returns None.
C9_NotConnectedRefused ==
  (call.op = "_send_command" /\ ~call.conn /\ CallOver) =>
    /\ call.writes = <<>>
    /\ IF call.arg[1] = <<>> THEN call.out = Return("None")
       ELSE call.out.kind = "raise" /\ call.out.exc = "ConnectionError"

\* C9's case: a non-empty command sent while not connected was refused.
C9_Witness ==
  /\ call.op = "_send_command"
  /\ ~call.conn
  /\ call.arg[1] /= <<>>
  /\ call.out.kind = "raise"
  /\ call.out.exc = "ConnectionError"

C11_CacheFollowsAcks ==
  (call.op \in Setters /\ CallOver) =>
    /\ \A f \in DOMAIN params : f /= FieldOf(call.op) => params[f] = call.before[f]
    /\ \/ params[FieldOf(call.op)] = call.before[FieldOf(call.op)]
       \/ call.resp = <<OK>> /\ NumEq(params[FieldOf(call.op)], call.arg[1])

\* C12: a setter called with an input that breaks its rule (pulse mode not
\* 0, 1 or 2; diode trigger not 0 or 1; pulse width not a number or <= 0;
\* burst count a number <= 0; repetition rate a number outside [1,5]) raises
\* ValueError, writes nothing and changes no cached field.
C12_InvalidInputRefused ==
  LET x == call.arg[1]
      breaks ==
        CASE call.op = "set_pulse_mode" -> ~(IsNumber(x) /\ \E m \in 0..2 : x.n = m * x.d)
          [] call.op = "set_diode_trigger" -> ~(IsNumber(x) /\ \E m \in 0..1 : x.n = m * x.d)
          [] call.op = "set_pulse_width" -> ~IsNumber(x) \/ x.n <= 0
          [] call.op = "set_burst_count" -> IsNumber(x) /\ x.n <= 0
          [] call.op = "set_repetition_rate" -> IsNumber(x) /\ (x.n < x.d \/ x.n > 5 * x.d)
          [] OTHER -> FALSE
  IN (call.op \in Setters /\ breaks) =>
       /\ call.out.kind = "raise"
       /\ call.out.exc = "ValueError"
       /\ call.writes = <<>>
       /\ params = call.before

\* C12's case: on a connected Laser, set_pulse_width was called with a str
\* and raised ValueError with nothing written.
C12_Witness ==
  /\ call.op = "set_pulse_width"
  /\ call.arg = <<PyStr>>
  /\ call.conn
  /\ call.out.kind = "raise"
  /\ call.out.exc = "ValueError"
  /\ call.writes = <<>>

\* C13: a query operation (get_status, is_armed, a parameter getter) whose
\* response begins with the error marker '?' raises LaserCommandError.
C13_NackIsCommandError ==
  (call.op \in {"get_status", "is_armed"} \cup Getters /\ CallOver
     /\ call.resp /= <<>> /\ call.resp[1] /= Empty /\ call.resp[1][1] = "?") =>
    call.out.kind = "raise" /\ call.out.exc = "LaserCommandError"

\* C14: a parameter getter or setter whose response is empty (a timeout)
\* raises LaserCommandError with the no-response description, which is none
\* of the NACK descriptions, and leaves the cache as it was.
C14_TimeoutIsCommandError ==
  (call.op \in Getters \cup Setters /\ CallOver /\ call.resp = <<Empty>>) =>
    /\ call.out = Raise("LaserCommandError", NoResponse)
    /\ \A k \in 1..8 : get_error_code_description(Nack(k)) /= NoResponse
    /\ params = call.before

\* C15: refresh_parameters sends PM?, PE?, RR?, BC?, DW?, DT? in this order;
\* at the first query answered by a NACK or by nothing it raises, no later
\* query is sent, the fields of the earlier queries hold the device's values
\* and the failed field and the later ones are as before the call.
C15_RefreshStopsAtFirstFailure ==
  call.op = "refresh_parameters" =>
    /\ \A k \in 1..Len(call.writes) : call.writes[k] = QueryCmd(RefreshOrder[k])
    /\ \A k \in 1..Len(call.resp) :
         (call.resp[k] = Empty \/ call.resp[k][1] = "?") =>
           /\ Len(call.writes) = k
           /\ call.out.kind = "raise"
           /\ \A j \in 1..(k - 1) :
                params[GetterField(RefreshOrder[j])] = GetterParse(RefreshOrder[j], call.resp[j]).val[1]
           /\ \A j \in k..6 :
                params[GetterField(RefreshOrder[j])] = call.before[GetterField(RefreshOrder[j])]

\* C16: an arm() whose EN? was answered with a response beginning with '1'
\* raises the already-armed LaserCommandError and writes no EN 1.
C16_ArmedIsNotRearmed ==
  (call.op = "arm" /\ CallOver /\ call.resp /= <<>> /\ call.resp[1] /= Empty
     /\ call.resp[1][1] = "1") =>
    /\ call.out = Raise("LaserCommandError", <<"Laser already armed">>)
    /\ CmdEN1 \notin Range(call.writes)

\* C17 as claimed: _send_command(cmd) on a connected Laser writes exactly
\* ';' 'LA' ':' cmd CR, once, and returns the bytes it read, for every cmd.
C17_EveryCommandFramed ==
  (call.op = "_send_command" /\ call.conn /\ CallOver) =>
    /\ Len(call.writes) = 1
    /\ Len(wire) >= 2
    /\ wire[Len(wire) - 1] =
         [k |-> "w", who |-> "caller", cmd |-> <<";", "L", "A", ":">> \o call.arg[1] \o <<"\r">>]
    /\ call.resp /= <<>>
    /\ call.out = [kind |-> "return", exc |-> "", val |-> call.resp]

\* C17 as amended: _send_command(cmd) on a connected Laser, for a non-empty
\* cmd, writes exactly ';' 'LA' ':' cmd CR, once, and returns the bytes it
\* read; for the empty cmd it writes nothing and returns None.
C17_CommandFramed ==
  (call.op = "_send_command" /\ call.conn /\ CallOver) =>
    IF call.arg[1] = <<>>
    THEN call.writes = <<>> /\ call.resp = <<>> /\ call.out.val = <<"None">>
    ELSE /\ Len(call.writes) = 1
         /\ Len(wire) >= 2
         /\ wire[Len(wire) - 1] =
              [k |-> "w", who |-> "caller", cmd |-> <<";", "L", "A", ":">> \o call.arg[1] \o <<"\r">>]
         /\ call.resp /= <<>>
         /\ call.out = [kind |-> "return", exc |-> "", val |-> call.resp]

\* C17's case: _send_command("HI") on a connected Laser wrote ;LA:HI<CR> and
\* returned the device's ok<CR><LF>.
C17_Witness ==
  /\ call.op = "_send_command"
  /\ call.conn
  /\ call.arg = <<(<<"H", "I">>)>>
  /\ call.writes = <<(<<"H", "I">>)>>
  /\ wire = <<[k |-> "w", who |-> "caller", cmd |-> <<";", "L", "A", ":", "H", "I", "\r">>],
              [k |-> "r", who |-> "caller", cmd |-> <<";", "L", "A", ":", "H", "I", "\r">>]>>
  /\ call.resp = <<OK>>
  /\ call.out.kind = "return"

\* C18: disconnect() on a Laser that is not connected raises nothing and
\* leaves it disconnected with no handle.
C18_DisconnectIdempotent ==
  (call.op = "disconnect" /\ ~call.conn /\ CallOver) =>
    /\ call.out.kind = "return"
    /\ ~connected
    /\ ser = "None"

\* C19: for every flag set, decoding the integer that encoding it gives
\* yields the same flag set: LaserStatusResponse(int(s)) = s.
C19_StatusRoundTrip ==
  call.op = "__int__" => LaserStatusResponse(call.out.val[1]) = call.status[1]

\* C19's case: the object with all eleven flags set (built from an integer
\* that also has bits no flag reads) was converted to 16331.
C19_Witness ==
  /\ call.op = "__int__"
  /\ \A f \in StatusFlags : call.status[1][f]
  /\ call.arg[1] /= call.out.val[1]
  /\ call.out.val[1] = 16331

\* C20: decoding the status integer i sets each flag exactly when its bit is
\* set in i: laser_enabled 1, laser_active 2, diode_external_trigger 8,
\* external_interlock 64, resonator_over_temp 128, electrical_over_temp 256,
\* power_failure 512, ready_to_enable 1024, ready_to_fire 2048,
\* low_power_mode 4096, high_power_mode 8192.
C20_FlagsAreBits ==
  (call.op \in {"LaserStatusResponse", "__int__"} /\ call.status /= <<>>) =>
    LET i == call.arg[1]
        s == call.status[1]
        set(b) == i % (2 * b) >= b
    IN /\ s.laser_enabled = set(1)
       /\ s.laser_active = set(2)
       /\ s.diode_external_trigger = set(8)
       /\ s.external_interlock = set(64)
       /\ s.resonator_over_temp = set(128)
       /\ s.electrical_over_temp = set(256)
       /\ s.power_failure = set(512)
       /\ s.ready_to_enable = set(1024)
       /\ s.ready_to_fire = set(2048)
       /\ s.low_power_mode = set(4096)
       /\ s.high_power_mode = set(8192)

\* C20's case: 3075 was decoded to exactly laser_enabled, laser_active,
\* ready_to_enable and ready_to_fire.
C20_Witness ==
  /\ call.op = "LaserStatusResponse"
  /\ call.arg = <<3075>>
  /\ call.status /= <<>>
  /\ {f \in StatusFlags : call.status[1][f]} =
       {"laser_enabled", "laser_active", "ready_to_enable", "ready_to_fire"}

\* C21: a disarm() that got a response has written exactly one command, EN 0,
\* with no query before it; it returns True when the response is ok<CR><LF>
\* and raises LaserCommandError otherwise.
C21_DisarmUnconditional ==
  (call.op = "disarm" /\ call.resp /= <<>>) =>
    /\ call.writes = <<(<<"E", "N", " ", "0">>)>>
    /\ IF call.resp[1] = OK THEN call.out.kind = "return" /\ call.out.val = <<"True">>
       ELSE call.out.kind = "raise" /\ call.out.exc = "LaserCommandError"

\* C21's case: disarm() was answered "ok<CR>" without the line feed and
\* raised, EN 0 being its only write.
C21_Witness ==
  /\ call.op = "disarm"
  /\ call.resp = <<OkCr>>
  /\ call.writes = <<CmdEN0>>
  /\ call.out.kind = "raise"

\* C22: an arm() whose EN? reported the device not armed writes EN? and then
\* EN 1; it returns True only when EN 1 is answered ok<CR><LF> and raises
\* LaserCommandError for any other answer to EN 1.
C22_ArmQueriesThenEnables ==
  (call.op = "arm" /\ call.resp /= <<>> /\ call.resp[1] = <<"0", "\r">>) =>
    /\ call.writes \in {<<CmdENq>>, <<CmdENq, CmdEN1>>}
    /\ CallOver =>
         /\ call.writes = <<CmdENq, CmdEN1>>
         /\ Len(call.resp) = 2 =>
              IF call.resp[2] = OK THEN call.out.kind = "return" /\ call.out.val = <<"True">>
              ELSE call.out.kind = "raise" /\ call.out.exc = "LaserCommandError"
         /\ Len(call.resp) = 1 => call.out.kind = "raise"

\* C22's case: EN? answered 0, EN 1 written and answered by nothing: arm()
\* raised the no-response error.
C22_Witness ==
  /\ call.op = "arm"
  /\ call.resp = <<(<<"0", "\r">>), Empty>>
  /\ call.writes = <<CmdENq, CmdEN1>>
  /\ call.out = Raise("LaserCommandError", NoResponse)

\* C23: a tick whose status query succeeded stops the kicker and resets the
\* elapsed counter to 0 if the status is not laser_active and the counter
\* exceeds fire_duration; in every other case it adds 1 to the counter and
\* the kicker keeps running.
C23_TickCountsOrStops ==
  [][(pc["kicker"] = At("tick_ss", "read") /\ tick'.status /= <<>>) =>
       IF ~tick'.status[1].laser_active
          /\ fire_duration[1].n * 1 < fire_timer * fire_duration[1].d
       THEN ~kicker_running' /\ fire_timer' = 0
       ELSE kicker_running' /\ fire_timer' = fire_timer + 1]_vars

\* C23's case: a tick found the laser inactive with 4 elapsed against a
\* fire_duration of 3, stopped the kicker and reset the counter.
C23_Witness ==
  /\ TickOver
  /\ tick.status /= <<>>
  /\ ~tick.status[1].laser_active
  /\ tick.timer0 = 4
  /\ tick.dur0 /= <<>>
  /\ NumEq(tick.dur0[1], PyI(3))
  /\ tick.stopped
  /\ fire_timer = 0
  /\ ~kicker_running

\* C24 as claimed: a tick that finds the laser inactive with the elapsed
\* counter equal to fire_duration stops the kicker and resets the counter.
C24_EqualEndsSession ==
  [][(pc["kicker"] = At("tick_ss", "read") /\ tick'.status /= <<>>
        /\ ~tick'.status[1].laser_active
        /\ fire_duration[1].n = fire_timer * fire_duration[1].d) =>
       ~kicker_running' /\ fire_timer' = 0]_vars

\* C24 as amended: a tick that finds the laser inactive with the elapsed
\* counter equal to fire_duration does not end the session: it adds 1 to the
\* counter and the kicker keeps running (the session ends at a later tick,
\* once the counter is greater than fire_duration).
C24_EqualKeepsCounting ==
  [][(pc["kicker"] = At("tick_ss", "read") /\ tick'.status /= <<>>
        /\ ~tick'.status[1].laser_active
        /\ fire_duration[1].n = fire_timer * fire_duration[1].d) =>
       kicker_running' /\ fire_timer' = fire_timer + 1]_vars

\* C24's case: a tick found the laser inactive with 3 elapsed against a
\* fire_duration of 3 and went on counting.
C24_Witness ==
  /\ TickOver
  /\ tick.status /= <<>>
  /\ ~tick.status[1].laser_active
  /\ tick.timer0 = 3
  /\ tick.dur0 /= <<>>
  /\ NumEq(tick.dur0[1], PyI(3))
  /\ ~tick.stopped
  /\ fire_timer = 4
  /\ kicker_running

\* C25: a fire() whose status query succeeded has computed fire_duration as
\* 1/repRate when the cached pulse mode is 0 or 1 and as burstCount/repRate
\* when it is 2; for any other cached pulse mode it has raised the
\* invalid-pulse-mode LaserCommandError, written no FL 1 and not started the
\* kicker.
C25_FireDuration ==
  (call.op = "fire" /\ call.status /= <<>>) =>
    LET m == call.before.pulseMode
        r == call.before.repRate
        b == call.before.burstCount
    IN IF m.n \in {0, 1} /\ m.d = 1
       THEN /\ call.dur /= <<>>
            /\ call.dur[1].n * r.n = call.dur[1].d * r.d
            /\ fire_duration = call.dur
       ELSE IF m.n = 2 /\ m.d = 1
       THEN /\ call.dur /= <<>>
            /\ call.dur[1].n * r.n * b.d = call.dur[1].d * r.d * b.n
            /\ fire_duration = call.dur
       ELSE /\ call.dur = <<>>
            /\ call.out = Raise("LaserCommandError", <<"Invalid pulse mode set for laser!">>)
            /\ CmdFL1 \notin Range(call.writes)
            /\ ~call.kicked

\* C25's case: a fire() in burst mode with burst count 3 at 2 Hz has computed
\* the duration 3/2.
C25_Witness ==
  /\ call.op = "fire"
  /\ call.status /= <<>>
  /\ call.before.pulseMode = PyI(2)
  /\ call.before.repRate = PyI(2)
  /\ call.before.burstCount = PyI(3)
  /\ call.dur = <<[t |-> "float", n |-> 3, d |-> 2]>>
  /\ fire_duration = call.dur

\* C26: a kicker's _send_command that races the caller's disconnect() either
\* completes its write and read on the open handle or raises
\* ConnectionError: no write or read is ever attempted on a handle that was
\* closed or set to None.
C26_NoSendOnDeadHandle ==
  tick.out.kind = "raise" =>
    tick.out.val \notin {<<"write">>, <<"read_until">>}

\* C27: whenever fire() starts the kicker, the elapsed counter is 0.
C27_SessionStartsAtZero ==
  [][(pc["caller"].site = "fire_kick" /\ pc'["caller"].site /= "fire_kick") =>
       fire_timer = 0]_vars

\* C28: a fire() that fails its preconditions (not enabled, or not ready to
\* fire), made after an earlier fire() has set up a session, leaves
\* fire_duration, the elapsed counter and the kicker's running state as they
\* were.
C28_FailedFireChangesNothing ==
  [][(pc["caller"] = At("fire_ss", "read") /\ call'.status /= <<>>
        /\ ~(call'.status[1].laser_enabled /\ call'.status[1].ready_to_fire)
        /\ fire_duration /= <<>>) =>
       /\ fire_duration' = fire_duration
       /\ fire_timer' = fire_timer
       /\ kicker_running' = kicker_running]_vars

\* C29: whatever setters were called and however they were answered, the
\* cached repetition rate is a number from 1 to 5.
C29_RepRateInRange ==
  /\ params.repRate.t \in {"int", "float"}
  /\ params.repRate.d <= params.repRate.n
  /\ params.repRate.n <= 5 * params.repRate.d

\* C30: a setter call that is over has returned True, or has raised with
\* every cached parameter equal to what it was before the call.
C30_SetterAllOrNothing ==
  (call.op \in Setters /\ CallOver) =>
    \/ call.out.kind = "return" /\ call.out.val = <<"True">>
    \/ /\ call.out.kind = "raise"
       /\ \A f \in DOMAIN params :
            params[f].n * call.before[f].d = call.before[f].n * params[f].d

====
